---- MODULE Spec2Model ----
(***************************************************************************)
(* git-history-wrapper (src/main.rs): a wrapper that forwards a command to *)
(* git, prints its output, and records a GitCommandState row in the sqlite *)
(* table git_command_history.                                              *)
(*                                                                         *)
(* A Rust String is modelled as a sequence of one-character strings, so    *)
(* that str::split, the verb tables and the JSON text are computed.        *)
(***************************************************************************)
EXTENDS Integers, Sequences, FiniteSets, TLC

\* ------------------------------------------------------------------ bounds
\* longest string enumerated for the pure functions
MaxLen == 4
\* most rows the table is let to grow to
MaxRows == 2
\* largest reading of the wall clock
MaxClock == 2

\* ----------------------------------------------------------------- strings
SP == " "
TAB == "\t"
NL == "\n"
QUOTE == "\""
BACKSLASH == "\\"

\* char::is_whitespace, restricted to the characters the model draws
Whitespace == {SP, TAB, NL}

\* Result<T, E>, and a panic that unwinds out of main
Ok(v) == [tag |-> "Ok", val |-> v]
Err(e) == [tag |-> "Err", val |-> e]
Panic(msg) == [tag |-> "Panic", val |-> msg]

unwrap_or_else(r, default) == IF r.tag = "Ok" THEN r.val ELSE default

RECURSIVE Join(_, _)
\* [String]::join(sep)
Join(args, sep) ==
  IF args = <<>> THEN <<>>
  ELSE IF Len(args) = 1 THEN args[1]
  ELSE args[1] \o <<sep>> \o Join(Tail(args), sep)

\* a faulty variant of Split: str::split_whitespace, which cuts at every whitespace
\* character and yields no empty token
RECURSIVE SplitWhitespace(_, _)
SplitWhitespace(s, sep) ==
  IF s = <<>> THEN <<>>
  ELSE IF s[1] \in Whitespace THEN SplitWhitespace(Tail(s), sep)
  ELSE IF \A i \in 1..Len(s) : s[i] \notin Whitespace THEN <<s>>
  ELSE LET i == CHOOSE k \in 1..Len(s) :
                  s[k] \in Whitespace /\ \A j \in 1..(k-1) : s[j] \notin Whitespace
       IN  <<SubSeq(s, 1, i-1)>> \o SplitWhitespace(SubSeq(s, i+1, Len(s)), sep)

RECURSIVE Split(_, _)
\* str::split(sep) for a one-character pattern: the pieces between the
\* occurrences of sep, empty pieces included; "" gives one empty piece
Split(s, sep) ==
  IF \A i \in 1..Len(s) : s[i] # sep THEN <<s>>
  ELSE LET i == CHOOSE k \in 1..Len(s) :
                  s[k] = sep /\ \A j \in 1..(k-1) : s[j] # sep
       IN  <<SubSeq(s, 1, i-1)>> \o Split(SubSeq(s, i+1, Len(s)), sep)

\* ------------------------------------------------------------- verb tables
\* enum GitCommand
GitCommand ==
  { "Add", "Apply", "Bisect", "Branch", "Checkout", "CherryPick",
    "Clean", "Clone", "Commit", "Fetch", "FilterBranch", "Fsck",
    "Gc", "Init", "Merge", "Mv", "Pull", "Push",
    "Rebase", "Remote", "Reset", "Restore", "Rm", "Stash",
    "Submodule", "Switch", "Tag", "UpdateIndex", "UpdateRef", "WriteTree",
    "InvalidCommand" }

\* #[serde(rename_all = "snake_case")]: the name each variant serialises to
SnakeCase ==
  [ k \in GitCommand |->
    CASE k = "Add" -> <<"a","d","d">>
      [] k = "Apply" -> <<"a","p","p","l","y">>
      [] k = "Bisect" -> <<"b","i","s","e","c","t">>
      [] k = "Branch" -> <<"b","r","a","n","c","h">>
      [] k = "Checkout" -> <<"c","h","e","c","k","o","u","t">>
      [] k = "CherryPick" -> <<"c","h","e","r","r","y","_","p","i","c","k">>
      [] k = "Clean" -> <<"c","l","e","a","n">>
      [] k = "Clone" -> <<"c","l","o","n","e">>
      [] k = "Commit" -> <<"c","o","m","m","i","t">>
      [] k = "Fetch" -> <<"f","e","t","c","h">>
      [] k = "FilterBranch" -> <<"f","i","l","t","e","r","_","b","r","a","n","c","h">>
      [] k = "Fsck" -> <<"f","s","c","k">>
      [] k = "Gc" -> <<"g","c">>
      [] k = "Init" -> <<"i","n","i","t">>
      [] k = "Merge" -> <<"m","e","r","g","e">>
      [] k = "Mv" -> <<"m","v">>
      [] k = "Pull" -> <<"p","u","l","l">>
      [] k = "Push" -> <<"p","u","s","h">>
      [] k = "Rebase" -> <<"r","e","b","a","s","e">>
      [] k = "Remote" -> <<"r","e","m","o","t","e">>
      [] k = "Reset" -> <<"r","e","s","e","t">>
      [] k = "Restore" -> <<"r","e","s","t","o","r","e">>
      [] k = "Rm" -> <<"r","m">>
      [] k = "Stash" -> <<"s","t","a","s","h">>
      [] k = "Submodule" -> <<"s","u","b","m","o","d","u","l","e">>
      [] k = "Switch" -> <<"s","w","i","t","c","h">>
      [] k = "Tag" -> <<"t","a","g">>
      [] k = "UpdateIndex" -> <<"u","p","d","a","t","e","_","i","n","d","e","x">>
      [] k = "UpdateRef" -> <<"u","p","d","a","t","e","_","r","e","f">>
      [] k = "WriteTree" -> <<"w","r","i","t","e","_","t","r","e","e">>
      [] k = "InvalidCommand" -> <<"i","n","v","a","l","i","d","_","c","o","m","m","a","n","d">> ]

\* a faulty variant of MutateVerbs: the arm "push" => true is missing
MutateVerbsWithoutPush ==
  { <<"a","d","d">>,
    <<"a","p","p","l","y">>,
    <<"b","i","s","e","c","t">>,
    <<"b","r","a","n","c","h">>,
    <<"c","h","e","c","k","o","u","t">>,
    <<"c","h","e","r","r","y","-","p","i","c","k">>,
    <<"c","l","e","a","n">>,
    <<"c","l","o","n","e">>,
    <<"c","o","m","m","i","t">>,
    <<"f","e","t","c","h">>,
    <<"f","i","l","t","e","r","-","b","r","a","n","c","h">>,
    <<"f","s","c","k">>,
    <<"g","c">>,
    <<"i","n","i","t">>,
    <<"m","e","r","g","e">>,
    <<"m","v">>,
    <<"p","u","l","l">>,
    <<"r","e","b","a","s","e">>,
    <<"r","e","m","o","t","e">>,
    <<"r","e","s","e","t">>,
    <<"r","e","s","t","o","r","e">>,
    <<"r","m">>,
    <<"s","t","a","s","h">>,
    <<"s","u","b","m","o","d","u","l","e">>,
    <<"s","w","i","t","c","h">>,
    <<"t","a","g">>,
    <<"u","p","d","a","t","e","-","i","n","d","e","x">>,
    <<"u","p","d","a","t","e","-","r","e","f">>,
    <<"w","r","i","t","e","-","t","r","e","e">> }

\* the string patterns of command_is_mutate's match that give true
MutateVerbs ==
  { <<"a","d","d">>,
    <<"a","p","p","l","y">>,
    <<"b","i","s","e","c","t">>,
    <<"b","r","a","n","c","h">>,
    <<"c","h","e","c","k","o","u","t">>,
    <<"c","h","e","r","r","y","-","p","i","c","k">>,
    <<"c","l","e","a","n">>,
    <<"c","l","o","n","e">>,
    <<"c","o","m","m","i","t">>,
    <<"f","e","t","c","h">>,
    <<"f","i","l","t","e","r","-","b","r","a","n","c","h">>,
    <<"f","s","c","k">>,
    <<"g","c">>,
    <<"i","n","i","t">>,
    <<"m","e","r","g","e">>,
    <<"m","v">>,
    <<"p","u","l","l">>,
    <<"p","u","s","h">>,
    <<"r","e","b","a","s","e">>,
    <<"r","e","m","o","t","e">>,
    <<"r","e","s","e","t">>,
    <<"r","e","s","t","o","r","e">>,
    <<"r","m">>,
    <<"s","t","a","s","h">>,
    <<"s","u","b","m","o","d","u","l","e">>,
    <<"s","w","i","t","c","h">>,
    <<"t","a","g">>,
    <<"u","p","d","a","t","e","-","i","n","d","e","x">>,
    <<"u","p","d","a","t","e","-","r","e","f">>,
    <<"w","r","i","t","e","-","t","r","e","e">> }

\* the arms of extract_git_command's match: <<pattern, variant>>
VerbTable ==
  { <<<<"a","d","d">>, "Add">>,
    <<<<"a","p","p","l","y">>, "Apply">>,
    <<<<"b","i","s","e","c","t">>, "Bisect">>,
    <<<<"b","r","a","n","c","h">>, "Branch">>,
    <<<<"c","h","e","c","k","o","u","t">>, "Checkout">>,
    <<<<"c","h","e","r","r","y","-","p","i","c","k">>, "CherryPick">>,
    <<<<"c","l","e","a","n">>, "Clean">>,
    <<<<"c","l","o","n","e">>, "Clone">>,
    <<<<"c","o","m","m","i","t">>, "Commit">>,
    <<<<"f","e","t","c","h">>, "Fetch">>,
    <<<<"f","i","l","t","e","r","-","b","r","a","n","c","h">>, "FilterBranch">>,
    <<<<"f","s","c","k">>, "Fsck">>,
    <<<<"g","c">>, "Gc">>,
    <<<<"i","n","i","t">>, "Init">>,
    <<<<"m","e","r","g","e">>, "Merge">>,
    <<<<"m","v">>, "Mv">>,
    <<<<"p","u","l","l">>, "Pull">>,
    <<<<"p","u","s","h">>, "Push">>,
    <<<<"r","e","b","a","s","e">>, "Rebase">>,
    <<<<"r","e","m","o","t","e">>, "Remote">>,
    <<<<"r","e","s","e","t">>, "Reset">>,
    <<<<"r","e","s","t","o","r","e">>, "Restore">>,
    <<<<"r","m">>, "Rm">>,
    <<<<"s","t","a","s","h">>, "Stash">>,
    <<<<"s","u","b","m","o","d","u","l","e">>, "Submodule">>,
    <<<<"s","w","i","t","c","h">>, "Switch">>,
    <<<<"t","a","g">>, "Tag">>,
    <<<<"u","p","d","a","t","e","-","i","n","d","e","x">>, "UpdateIndex">>,
    <<<<"u","p","d","a","t","e","-","r","e","f">>, "UpdateRef">>,
    <<<<"w","r","i","t","e","-","t","r","e","e">>, "WriteTree">> }

command_is_mutate(command) == command \in MutateVerbs

\* Iterator::next().unwrap_or_else(|| "")
NextOrEmpty(tokens) == IF tokens = <<>> THEN <<>> ELSE Head(tokens)

extract_git_command(command) ==
  LET first == NextOrEmpty(Split(command, SP))
  IN  IF \E e \in VerbTable : e[1] = first
      THEN Ok((CHOOSE e \in VerbTable : e[1] = first)[2])
      ELSE Err("No command found")

\* a faulty variant of process_affected_files: a path is pushed once only
process_affected_files_dedup(command, fs) ==
  LET toks == Split(command, SP)
  IN  Ok(SelectSeq([i \in 1..Len(toks) |->
                      IF \E j \in 1..(i-1) : toks[j] = toks[i] THEN <<>> ELSE toks[i]],
                   LAMBDA t : t \in fs))

\* fs: the paths for which std::path::Path::exists() is true
process_affected_files(command, fs) ==
  Ok(SelectSeq(Split(command, SP), LAMBDA t : t \in fs))

\* the classification GitCommandState::new makes
Classify(command) == unwrap_or_else(extract_git_command(command), "InvalidCommand")

\* ------------------------------------------------------ repository state
\* What std::process::Command::output() gives for one run of git: whether
\* the process could be spawned, whether its stdout is valid UTF-8, and the
\* stdout text.
GitRun(spawned, utf8, stdout) == [spawned |-> spawned, utf8 |-> utf8, stdout |-> stdout]

\* .output().expect("failed to execute process") and then
\* String::from_utf8(output.stdout).unwrap(): the text as captured, or a panic
CapturedStdout(run) ==
  IF ~run.spawned THEN Panic("failed to execute process")
  ELSE IF ~run.utf8 THEN Panic("called Result::unwrap() on an Err value")
  ELSE Ok(run.stdout)

\* run: the outcome of `git rev-parse HEAD`
get_current_commit(run) == CapturedStdout(run)

\* run: the outcome of `git rev-parse --abbrev-ref HEAD`
get_current_branch(run) == CapturedStdout(run)

\* what the two introspection queries would give in each state of the
\* environment: on branch main; outside any repository (git writes to stderr
\* only); a branch whose name is not UTF-8; git not runnable
RepoStates ==
  { [branch |-> GitRun(TRUE, TRUE, <<"m","a","i","n","\n">>), commit |-> GitRun(TRUE, TRUE, <<"9","f","c","e","b","0","2","\n">>)],
    [branch |-> GitRun(TRUE, TRUE, <<>>), commit |-> GitRun(TRUE, TRUE, <<>>)],
    [branch |-> GitRun(TRUE, FALSE, <<>>), commit |-> GitRun(TRUE, TRUE, <<"9","f","c","e","b","0","2","\n">>)],
    [branch |-> GitRun(FALSE, FALSE, <<>>), commit |-> GitRun(FALSE, FALSE, <<>>)] }

\* GitCommandState::new; a panic in a field's initialiser unwinds out of it
GitCommandState_new(command, fs, repo) ==
  LET git_command == Classify(command)
      files == unwrap_or_else(process_affected_files(command, fs), <<>>)
      branch == get_current_branch(repo.branch)
      commit == get_current_commit(repo.commit)
  IN  IF branch.tag = "Panic" THEN branch
      ELSE IF commit.tag = "Panic" THEN commit
      ELSE Ok([command |-> git_command,
               files_affected |-> files,
               current_branch |-> branch.val,
               current_commit |-> commit.val])

\* ----------------------------------------------------------------- serde
RECURSIVE Concat(_)
Concat(ss) == IF ss = <<>> THEN <<>> ELSE Head(ss) \o Concat(Tail(ss))

\* serde_json's escaping inside a string literal
EscapeChar(c) ==
  CASE c = QUOTE -> <<BACKSLASH, QUOTE>>
    [] c = BACKSLASH -> <<BACKSLASH, BACKSLASH>>
    [] c = NL -> <<BACKSLASH, "n">>
    [] c = TAB -> <<BACKSLASH, "t">>
    [] OTHER -> <<c>>

JsonString(s) == <<QUOTE>> \o Concat([i \in 1..Len(s) |-> EscapeChar(s[i])]) \o <<QUOTE>>

JsonArray(items) ==
  <<"[">> \o Concat([i \in 1..Len(items) |->
                       IF i = 1 THEN items[i] ELSE <<",">> \o items[i]]) \o <<"]">>

\* serde_json::to_string(&GitCommandState): the derived Serialize, fields in
\* declaration order, the variant under its snake_case name
serde_json_to_string(st) ==
  <<"{","\"","c","o","m","m","a","n","d","\"",":">> \o JsonString(SnakeCase[st.command])
  \o <<",","\"","f","i","l","e","s","_","a","f","f","e","c","t","e","d","\"",":">>
  \o JsonArray([i \in 1..Len(st.files_affected) |-> JsonString(st.files_affected[i])])
  \o <<",","\"","c","u","r","r","e","n","t","_","b","r","a","n","c","h","\"",":">> \o JsonString(st.current_branch)
  \o <<",","\"","c","u","r","r","e","n","t","_","c","o","m","m","i","t","\"",":">> \o JsonString(st.current_commit)
  \o <<"}">>

\* ----------------------------------------------------------------- store
\* The sqlite file .git_command_history as [schema, rows]: whether the table
\* git_command_history exists, and its rows [id, command, created_at] in
\* rowid order, which is the order of a full scan.

\* a faulty variant of CreateTableIfNotExists: CREATE TABLE without IF NOT EXISTS
CreateTable(db) ==
  IF db.schema THEN [res |-> Err("table git_command_history already exists"), db |-> db]
  ELSE [res |-> Ok(0), db |-> [schema |-> TRUE, rows |-> <<>>]]

\* CREATE TABLE IF NOT EXISTS git_command_history (...)
CreateTableIfNotExists(db) ==
  IF db.schema THEN [res |-> Ok(0), db |-> db]
  ELSE [res |-> Ok(0), db |-> [schema |-> TRUE, rows |-> <<>>]]

\* a faulty variant of InsertRow: the table has no PRIMARY KEY on id
InsertRowNoPrimaryKey(db, row) ==
  IF ~db.schema THEN [res |-> Err("no such table: git_command_history"), db |-> db]
  ELSE [res |-> Ok(1), db |-> [db EXCEPT !.rows = Append(@, row)]]

\* a faulty variant of InsertRow: INSERT OR REPLACE
InsertOrReplaceRow(db, row) ==
  IF ~db.schema THEN [res |-> Err("no such table: git_command_history"), db |-> db]
  ELSE [res |-> Ok(1),
        db |-> [db EXCEPT !.rows = Append(SelectSeq(@, LAMBDA r : r.id # row.id), row)]]

\* INSERT INTO git_command_history (id, command, created_at) VALUES (?1, ?2, ?3)
\* against id TEXT PRIMARY KEY
InsertRow(db, row) ==
  IF ~db.schema THEN [res |-> Err("no such table: git_command_history"), db |-> db]
  ELSE IF \E i \in 1..Len(db.rows) : db.rows[i].id = row.id
       THEN [res |-> Err("UNIQUE constraint failed: git_command_history.id"), db |-> db]
  ELSE [res |-> Ok(1), db |-> [db EXCEPT !.rows = Append(@, row)]]

\* SELECT * FROM git_command_history
SelectAll(db) ==
  IF ~db.schema THEN Err("no such table: git_command_history") ELSE Ok(db.rows)

\* ----------------------------------------------------------------- state
VARIABLES
  pc,       \* 0: no invocation is running; else the index in OtherProgram of
            \* the next statement of the running pass-through invocation
  sub,      \* the subcommand of the current (or last) invocation
  command,  \* args.join(" ") of the pass-through invocation
  fwd,      \* the forwarded command's captured standard output
  conn,     \* whether this invocation holds an open rusqlite::Connection
  state,    \* the GitCommandState built by this invocation
  stdout,   \* what this invocation has printed, one entry per println!
  exit,     \* how the invocation ended: "ok", "panic", or the Err main returned:
            \* "err:open" (Connection::open), "err:sql" (prepare or execute)
  trace,    \* history: the statements this invocation has executed, in order
  db,       \* the sqlite file: [schema, rows]
  history,  \* history: the GitCommandState behind each row of db.rows
  now,      \* the last reading of the wall clock
  repo,     \* the environment: what git's introspection queries give now
  input,    \* pure-function runs: the argument [command, fs]
  result    \* pure-function runs: the value returned

vars == <<pc, sub, command, fwd, conn, state, stdout, exit, trace, db, history,
          now, repo, input, result>>

NoState == [command |-> "none"]
NoInput == [command |-> <<>>, fs |-> {}]
NoResult == [op |-> "none"]

\* Uuid::new_v4() draws from these
Uuids == {"u1", "u2", "u3"}

\* argument vectors of pass-through invocations (clap's external_subcommand)
ArgvInputs ==
  { << <<"p","u","s","h">>, <<"o","r","i","g","i","n">>, <<"m","a","i","n">> >>,
    << <<"s","t","a","t","u","s">> >>,
    << <<"a","d","d">>, <<"R","E","A","D","M","E",".","m","d">> >> }

\* the paths that exist in the working directory
WorkingDirectory == { <<"R","E","A","D","M","E",".","m","d">> }

\* outcomes of running the forwarded command: git not runnable, output that is
\* not UTF-8, output captured
ForwardRuns ==
  { GitRun(FALSE, FALSE, <<>>), GitRun(TRUE, FALSE, <<>>), GitRun(TRUE, TRUE, <<"o","k","\n">>) }

\* a faulty variant of OtherProgram: the store is opened before the command is forwarded
OtherProgramOpenFirst == <<"open", "forward", "print", "build", "insert">>

\* The statements of the Commands::Other arm in execution order: forward to
\* git and capture (56-60), println! (61), Connection::open (62), then in
\* add_command_history GitCommandState::new (76) and conn.execute (77-84).
OtherProgram == <<"forward", "print", "open", "build", "insert">>

Init ==
  /\ pc = 0
  /\ sub = "none"
  /\ command = <<>>
  /\ fwd = <<>>
  /\ conn = FALSE
  /\ state = NoState
  /\ stdout = <<>>
  /\ exit = "none"
  /\ trace = <<>>
  /\ db = [schema |-> FALSE, rows |-> <<>>]
  /\ history = <<>>
  /\ now = 0
  /\ repo \in RepoStates
  /\ input = NoInput
  /\ result = NoResult

\* a new process: nothing printed, nothing held
Fresh(s) ==
  /\ pc = 0
  /\ sub' = s
  /\ fwd' = <<>>
  /\ conn' = FALSE
  /\ state' = NoState
  /\ trace' = <<>>

\* Some(Commands::CommandHistoryInit)
CommandHistoryInit ==
  /\ Fresh("CommandHistoryInit")
  /\ pc' = 0
  /\ \E opened \in BOOLEAN :
       IF ~opened
       THEN /\ exit' = "err:open"
            /\ db' = db
       ELSE LET r == CreateTableIfNotExists(db)
            IN  /\ db' = r.db
                /\ exit' = IF r.res.tag = "Ok" THEN "ok" ELSE "err:sql"
  /\ stdout' = <<>>
  /\ command' = <<>>
  /\ UNCHANGED <<history, now, repo, input, result>>

\* the line println!("{} {} {}", id, command, created_at) prints for a row
RowLine(row) == <<row.id, row.command, row.created_at>>

\* Some(Commands::MutateActions)
MutateActions ==
  /\ Fresh("MutateActions")
  /\ pc' = 0
  /\ \E opened \in BOOLEAN :
       LET rows == SelectAll(db)
       IN  IF ~opened \/ rows.tag # "Ok"
           THEN /\ exit' = IF opened THEN "err:sql" ELSE "err:open"
                /\ stdout' = <<>>
           ELSE /\ exit' = "ok"
                /\ stdout' = LET kept == SelectSeq(rows.val,
                                                   LAMBDA row : command_is_mutate(row.command))
                             IN  [i \in 1..Len(kept) |-> RowLine(kept[i])]
  /\ command' = <<>>
  /\ UNCHANGED <<db, history, now, repo, input, result>>

\* None
NoSubcommand ==
  /\ Fresh("None")
  /\ pc' = 0
  /\ stdout' = << <<"N","o"," ","s","u","b","c","o","m","m","a","n","d"," ","w","a","s"," ","u","s","e","d">> >>
  /\ exit' = "ok"
  /\ command' = <<>>
  /\ UNCHANGED <<db, history, now, repo, input, result>>

\* Some(Commands::Other(args)): the process starts and joins its arguments;
\* no further pass-through invocation starts once the table holds MaxRows rows
StartOther ==
  /\ Fresh("Other")
  /\ Len(db.rows) < MaxRows
  /\ \E args \in ArgvInputs : command' = Join(args, SP)
  /\ pc' = 1
  /\ stdout' = <<>>
  /\ exit' = "running"
  /\ UNCHANGED <<db, history, now, repo, input, result>>

\* the statement at pc is `name`
At(name) == pc > 0 /\ OtherProgram[pc] = name

\* the statement at pc has run and ended as `status`: "running" to go on
Step(name, status) ==
  /\ trace' = Append(trace, name)
  /\ IF status # "running" THEN pc' = 0 /\ exit' = status
     ELSE IF pc = Len(OtherProgram) THEN pc' = 0 /\ exit' = "ok"
     ELSE pc' = pc + 1 /\ exit' = "running"

\* Command::new("git").args(args).output().expect(..), String::from_utf8(..).unwrap();
\* the command may leave the repository in any state
Forward ==
  /\ At("forward")
  /\ \E run \in ForwardRuns :
       LET out == CapturedStdout(run)
       IN  IF out.tag = "Panic"
           THEN /\ Step("forward", "panic")
                /\ UNCHANGED <<fwd, repo>>
           ELSE /\ Step("forward", "running")
                /\ fwd' = out.val
                /\ repo' \in RepoStates
  /\ UNCHANGED <<sub, command, conn, state, stdout, db, history, now, input, result>>

\* println!("{}", output)
PrintOutput ==
  /\ At("print")
  /\ stdout' = Append(stdout, fwd)
  /\ Step("print", "running")
  /\ UNCHANGED <<sub, command, fwd, conn, state, db, history, now, repo, input, result>>

\* rusqlite::Connection::open(GIT_COMMAND_HISTORY_FILE_PATH)?
OpenStore ==
  /\ At("open")
  /\ \E opened \in BOOLEAN :
       /\ conn' = opened
       /\ Step("open", IF opened THEN "running" ELSE "err:open")
  /\ UNCHANGED <<sub, command, fwd, state, stdout, db, history, now, repo, input, result>>

\* let command = GitCommandState::new(command);
BuildRecord ==
  /\ At("build")
  /\ LET r == GitCommandState_new(command, WorkingDirectory, repo)
     IN  IF r.tag = "Panic"
         THEN /\ Step("build", "panic")
              /\ state' = state
         ELSE /\ Step("build", "running")
              /\ state' = r.val
  /\ UNCHANGED <<sub, command, fwd, conn, stdout, db, history, now, repo, input, result>>

\* conn.execute("INSERT ...", [Uuid::new_v4().to_string(),
\* serde_json::to_string(&command)?, OffsetDateTime::now_utc().to_string()])?
\* The clock is read as an instant not before its last reading.
InsertHistory ==
  /\ At("insert")
  /\ \E id \in Uuids, t \in now..MaxClock :
       LET row == [id |-> id, command |-> serde_json_to_string(state), created_at |-> t]
           r == InsertRow(db, row)
       IN  /\ now' = t
           /\ db' = r.db
           /\ IF r.res.tag = "Ok"
              THEN /\ history' = Append(history, state)
                   /\ Step("insert", "running")
              ELSE /\ history' = history
                   /\ Step("insert", "err:sql")
  /\ UNCHANGED <<sub, command, fwd, conn, state, stdout, repo, input, result>>

Next ==
  \/ CommandHistoryInit
  \/ MutateActions
  \/ NoSubcommand
  \/ StartOther
  \/ Forward
  \/ PrintOutput
  \/ OpenStore
  \/ BuildRecord
  \/ InsertHistory

Spec == Init /\ [][Next]_vars

\* ------------------------------------------- the pure functions on their own
Alphabet == {"r", "m", SP, TAB}

BoundedStrings == UNION { [1..n -> Alphabet] : n \in 0..MaxLen }

\* every pattern of either table, alone and followed by arguments, and some
\* strings that are in neither
TableStrings ==
  LET verbs == MutateVerbs \cup { e[1] : e \in VerbTable }
  IN  verbs
      \cup { v \o <<" ","-","x">> : v \in verbs }
      \cup { SnakeCase[k] : k \in GitCommand }
      \cup { <<"s","t","a","t","u","s">>, <<"l","o","g">>, <<"p","u","s","h"," ","o","r","i","g","i","n"," ","m","a","i","n">>, <<"c","o","m","m","i","t"," ","-","m"," ","t","e","s","t">>,
             <<"a","d","d"," ","R","E","A","D","M","E",".","m","d">>, <<"P","u","s","h">> }

PureInputs ==
  [ command : BoundedStrings \cup TableStrings,
    fs : SUBSET { <<"r">>, <<"m">>, <<"r", TAB, "m">> } ]

PureInit ==
  /\ pc = 0
  /\ sub = "none"
  /\ command = <<>>
  /\ fwd = <<>>
  /\ conn = FALSE
  /\ state = NoState
  /\ stdout = <<>>
  /\ exit = "none"
  /\ trace = <<>>
  /\ db = [schema |-> FALSE, rows |-> <<>>]
  /\ history = <<>>
  /\ now = 0
  /\ repo = [branch |-> GitRun(TRUE, TRUE, <<>>), commit |-> GitRun(TRUE, TRUE, <<>>)]
  /\ input \in PureInputs
  /\ result = NoResult

PureFrame ==
  UNCHANGED <<pc, sub, command, fwd, conn, state, stdout, exit, trace, db, history,
              now, repo, input>>

ApplyClassify ==
  /\ result' = [op |-> "classify", val |-> Classify(input.command)]
  /\ PureFrame

ApplyExtract ==
  /\ result' = [op |-> "extract", val |-> process_affected_files(input.command, input.fs)]
  /\ PureFrame

ApplyTables ==
  /\ result' = [op |-> "tables",
                mutate |-> command_is_mutate(input.command),
                kind |-> extract_git_command(input.command)]
  /\ PureFrame

PureNext ==
  \/ ApplyClassify
  \/ ApplyExtract
  \/ ApplyTables

PureSpec == PureInit /\ [][PureNext]_vars

\* ------------------------------------------------------------ properties
\* The pieces of s between the characters of seps, by position: piece k lies
\* between the k-th and the (k+1)-th cut, where the cuts are 0, the positions
\* of the separators and Len(s)+1.
TokensBy(s, seps) ==
  LET cuts == {0, Len(s) + 1} \cup { i \in 1..Len(s) : s[i] \in seps }
      n == Cardinality(cuts) - 1
      cut(k) == CHOOSE c \in cuts : Cardinality({ d \in cuts : d < c }) = k - 1
  IN  [k \in 1..n |-> SubSeq(s, cut(k) + 1, cut(k + 1) - 1)]

\* the tokens separated by single spaces, empty ones included
SpaceTokens(s) == TokensBy(s, {SP})

\* the whitespace-separated tokens: the non-empty pieces between whitespace
WhitespaceTokens(s) == SelectSeq(TokensBy(s, Whitespace), LAMBDA t : t # <<>>)

KindOfToken(tok) ==
  IF \E e \in VerbTable : e[1] = tok
  THEN (CHOOSE e \in VerbTable : e[1] = tok)[2]
  ELSE "InvalidCommand"

Chars(s) == { s[i] : i \in 1..Len(s) }

IsErr(e) == e \in {"err:open", "err:sql"}

IsPrefix(s, t) == Len(s) <= Len(t) /\ SubSeq(t, 1, Len(s)) = s

RECURSIVE Trim(_)
\* str::trim
Trim(s) ==
  IF s = <<>> THEN s
  ELSE IF s[1] \in Whitespace THEN Trim(Tail(s))
  ELSE IF s[Len(s)] \in Whitespace THEN Trim(SubSeq(s, 1, Len(s) - 1))
  ELSE s

\* the variants the mutation predicate's table marks as mutating
MutatingKinds == { e[2] : e \in { f \in VerbTable : f[1] \in MutateVerbs } }

\* C1: when mutate-actions has run to its end, it has printed exactly one line
\* for each stored record whose command kind is mutating, in insertion order,
\* and none for any other record.
C1_MutateActionsPrintsMutatingRecords ==
  (sub = "MutateActions" /\ exit = "ok") =>
    LET idx == { i \in 1..Len(db.rows) : history[i].command \in MutatingKinds }
        expected == SelectSeq([i \in 1..Len(db.rows) |->
                                 IF i \in idx THEN db.rows[i].id ELSE "skip"],
                              LAMBDA x : x # "skip")
    IN  [i \in 1..Len(stdout) |-> stdout[i][1]] = expected

\* C2 as stated: the classifier returns the kind of the first
\* whitespace-separated token when that is a known verb, else InvalidCommand.
C2_ClassifiesFirstWhitespaceToken ==
  result.op = "classify" =>
    result.val = KindOfToken(NextOrEmpty(WhitespaceTokens(input.command)))

\* C2 amended: the classifier returns the kind of the text before the first
\* space character (the whole string when it has no space) when that text is
\* a known verb, and InvalidCommand for every other string; it always returns
\* a kind, never an error.
C2_ClassifiesFirstSpaceToken ==
  result.op = "classify" =>
    /\ result.val \in GitCommand
    /\ result.val = KindOfToken(SpaceTokens(input.command)[1])

C2_Witness ==
  /\ result.op = "classify"
  /\ result.val = "InvalidCommand"
  /\ input.command = <<SP, "r", "m">>

\* the statements a pass-through invocation is claimed to run, in order
ClaimedOrder == <<"forward", "print", "build", "open", "insert">>

\* the order with the store opened before the record is built
OpenBeforeBuildOrder == <<"forward", "print", "open", "build", "insert">>

\* a store failure of a pass-through invocation came after the forwarded
\* command's output was printed
StoreFailureAfterOutput ==
  (sub = "Other" /\ IsErr(exit)) =>
    /\ Len(trace) >= 3
    /\ SubSeq(trace, 1, 2) = <<"forward", "print">>
    /\ stdout = <<fwd>>

\* C3 as stated: the steps run in the order forward, print, read
\* branch/commit and build the record, open the store, insert.
C3_ClaimedStepOrder ==
  /\ IsPrefix(trace, ClaimedOrder)
  /\ StoreFailureAfterOutput

\* C3 amended: the steps run in the order forward, print, open the store,
\* read branch/commit and build the record, insert; a store open or write
\* failure ends the invocation only after the forwarded output was printed.
C3_StepOrder ==
  /\ IsPrefix(trace, OpenBeforeBuildOrder)
  /\ StoreFailureAfterOutput

C3_Witness ==
  /\ sub = "Other"
  /\ exit = "err:open"
  /\ trace = <<"forward", "print", "open">>
  /\ stdout = << <<"o","k","\n">> >>

\* C4: the record builder never fails: whatever the branch and commit
\* queries do, the step that builds the record does not abort the invocation.
C4_BuilderNeverFails ==
  ~(sub = "Other" /\ exit = "panic" /\ trace # <<>> /\ trace[Len(trace)] = "build")

\* C5 as stated: the extractor returns the whitespace-separated tokens that
\* exist, in order, duplicates kept.
C5_ExtractsWhitespaceTokens ==
  result.op = "extract" =>
    result.val = Ok(SelectSeq(WhitespaceTokens(input.command), LAMBDA t : t \in input.fs))

\* C5 amended: the extractor returns exactly the subsequence of the command's
\* tokens separated by single space characters that exist as a path, verbatim,
\* in token order, duplicates kept; empty when none exists.
C5_ExtractsSpaceTokens ==
  result.op = "extract" =>
    result.val = Ok(SelectSeq(SpaceTokens(input.command), LAMBDA t : t \in input.fs))

C5_Witness ==
  /\ result.op = "extract"
  /\ input.command = <<"r", SP, "r">>
  /\ result.val = Ok(<< <<"r">>, <<"r">> >>)

C7_AppendOnly ==
  [][ IF sub' = "Other" /\ pc > 0 /\ exit' = "ok"
      THEN /\ Len(db'.rows) = Len(db.rows) + 1
           /\ SubSeq(db'.rows, 1, Len(db.rows)) = db.rows
      ELSE db'.rows = db.rows ]_vars

C7_Witness ==
  /\ sub = "Other"
  /\ exit = "ok"
  /\ Len(db.rows) = 2
  /\ db.rows[2].command = serde_json_to_string(state)

\* C8: init is idempotent: a run of init leaves the table existing and the
\* stored records kept, changes nothing when the table already exists, and
\* fails only when the store cannot be opened.
C8_InitIdempotent ==
  [][ CommandHistoryInit =>
        /\ exit' \in {"ok", "err:open"}
        /\ exit' = "ok" => db'.schema
        /\ db'.rows = db.rows
        /\ db.schema => db' = db ]_vars

C8_Witness ==
  /\ sub = "CommandHistoryInit"
  /\ exit = "ok"
  /\ Len(db.rows) > 0

\* C9: the branch and commit of a record are the queries' standard output
\* with leading and trailing whitespace removed, read after the forward.
C9_BranchAndCommitTrimmed ==
  state # NoState =>
    /\ state.current_branch = Trim(repo.branch.stdout)
    /\ state.current_commit = Trim(repo.commit.stdout)
    /\ \E i \in 1..Len(trace) : trace[i] = "forward"

\* C10 as stated: for every string, command_is_mutate is true exactly when
\* extract_git_command returns a kind.
C10_TablesAgreeOnEveryString ==
  result.op = "tables" => (result.mutate <=> result.kind.tag = "Ok")

\* C10 amended: the two tables hold the same verbs: for every string without
\* a space character, command_is_mutate is true exactly when
\* extract_git_command returns a kind; for a string with a space
\* command_is_mutate is false.
C10_TablesAgreeOnVerbs ==
  result.op = "tables" =>
    IF SP \in Chars(input.command)
    THEN ~result.mutate
    ELSE result.mutate <=> result.kind.tag = "Ok"

C10_Witness ==
  /\ result.op = "tables"
  /\ input.command = <<"p","u","s","h">>
  /\ result.mutate
  /\ result.kind = Ok("Push")

====
